---- MODULE Spec2Model ----
(***************************************************************************)
(* A model of potassium.py: the endpoint registry (Potassium.handler,      *)
(* Potassium.background), the request path (handle -> _handle_generic),    *)
(* the background thread (task), the lock and the one-slot event queue.    *)
(*                                                                         *)
(* Every request is one call of the adapter's handle(); request threads    *)
(* and background threads interleave at the operations on shared state:    *)
(* the probe of the lock, its acquisition and release, the put and the get *)
(* on the queue.  A function's return and the exit of the `with` block     *)
(* around it are one step.  A function "fails" by raising an Exception.    *)
(*                                                                         *)
(* The response a caller gets is the one the serving framework sends: the  *)
(* object _handle_generic returns if the framework can send it, and the    *)
(* framework's own 500 if _handle_generic raises or returns an object of   *)
(* the other framework.  JSONResponse is Starlette's class (sent by        *)
(* FastAPI, not by Flask); make_response is Flask's and works only inside  *)
(* a Flask view.                                                           *)
(*                                                                         *)
(* Spec     serving, from a registry with one endpoint of each type        *)
(* SpecChan the event channel: background requests and a reader            *)
(* SpecReg  registration by the decorators, then serving                   *)
(***************************************************************************)
EXTENDS Naturals, FiniteSets, Sequences, TLC

\* ------------------------------------------------------------------ bounds
\* requests served, calls of _read_event_chan, and requests served after a
\* free registration
NReq == 3
MaxReads == 2
NReqReg == 2
NReqAll == 2

Requests == 1..NReq
Paths == {"", "train", "nope"}
Funcs == {"f", "g"}
Backends == {"Flask", "FastAPI"}
Dicts == {"{}", "{result: 42}"}

\* Queue(maxsize=1)
QueueMaxSize == 1

VARIABLES backend, endpoints, serving, lock, event_chan,
          pc, route, gate, saw, calls, out, resp, task, pubs, kept,
          reader, reads, quiet, acked, parsed, fresh

vars == <<backend, endpoints, serving, lock, event_chan,
          pc, route, gate, saw, calls, out, resp, task, pubs, kept,
          reader, reads, quiet, acked, parsed, fresh>>

\* backend, endpoints, serving, lock, event_chan: the fields of Potassium.
\* pc, task: where each request thread and each background thread stands.
\* route, resp: a request's route and the response sent for it.
\* History, written and never read by the program's steps:
\*   gate[r]  whether the lock was held when request r arrived,
\*   saw[r]   what r's busy probe returned,  calls[r]  calls of r's function,
\*   out[r]   what that function gave,  pubs[r]  puts attempted by r's thread,
\*   kept     puts that stored an item,  reads  gets that returned,
\*   fresh    whether an endpoint function of a background thread has ended
\*            since the last get returned (since the start, before the first),
\*   quiet[r] whether every earlier request was over when r arrived,
\*   acked[r] whether every earlier request had its response when r arrived,
\*   parsed[r] whether _handle_generic took r's body (get_json under Flask,
\*             the bytes handed over by the adapter under FastAPI) and made
\*             a Request of it.
reqVars == <<pc, route, gate, saw, calls, out, resp, quiet, acked, parsed>>

\* ------------------------------------------------------- values and types
NoRoute == "-"
NoMarker == "-"
NoResp == [status |-> 0, marker |-> NoMarker, body |-> "-"]
NoOut == [t |-> "none", status |-> 0, json |-> "-"]
Started == "{started: true}"
Traceback == "traceback"

\* class Endpoint
Endpoint(type, func) == [type |-> type, func |-> func]

\* class Response: what a user function can hand back.  t = "Response" is a
\* Response object (its json a dict or not), t = "other" any other value,
\* t = "raise" an exception raised by the function.
Response(status, json) == [t |-> "Response", status |-> status, json |-> json]
NotAResponse == [t |-> "other", status |-> 0, json |-> "-"]
Raise == [t |-> "raise", status |-> 0, json |-> "-"]
Outcomes ==
    {Response(200, "{result: 42}"), Response(418, "{}"), Response(200, "[1, 2]"),
     NotAResponse, Raise}
\* A background function's results: the wrapper hands on whatever the function
\* returns and task() drops it, so a return is a return (None, say).
BgOutcomes == {NotAResponse, Raise}

\* ------------------------------------------------- the response objects
\* What constructing a response object yields: an object of Flask's class, an
\* object of Starlette's class, or an exception (cls = "raised").
Raised == [cls |-> "raised", status_code |-> 0, body |-> "-", marker |-> NoMarker]

\* flask.make_response: builds current_app's response class, so it needs
\* Flask's application context; outside a Flask view it raises RuntimeError.
make_response(body) ==
    IF backend = "Flask"
    THEN [cls |-> "flask", status_code |-> 200, body |-> body, marker |-> NoMarker]
    ELSE Raised

\* fastapi.responses.JSONResponse: a Starlette response object.
JSONResponse(body) ==
    [cls |-> "starlette", status_code |-> 200, body |-> body, marker |-> NoMarker]

\* res.status_code = s; not reached when the constructor raised.
SetStatus(res, s) ==
    IF res.cls = "raised" THEN res ELSE [res EXCEPT !.status_code = s]

\* res.headers["X-Endpoint-Type"] = type; not reached when the constructor raised.
SetMarker(res, type) ==
    IF res.cls = "raised" THEN res ELSE [res EXCEPT !.marker = type]

\* The response class the serving framework can send.
Sendable == IF backend = "FastAPI" THEN "starlette" ELSE "flask"

\* The framework's answer to an exception that leaves the view, or to a return
\* value it cannot send.
InternalServerError == [status |-> 500, marker |-> NoMarker, body |-> "Internal Server Error"]

\* abort(404) / HTTPException(status_code=404)
NotFound == [status |-> 404, marker |-> NoMarker, body |-> "Not Found"]

\* `return self._handle_generic(...)`: what the framework sends for the value
\* the view returns.
Wire(res) ==
    IF res.cls = Sendable
    THEN [status |-> res.status_code, marker |-> res.marker, body |-> res.body]
    ELSE InternalServerError

\* ---------------------------------------------------- _handle_generic
\* lines 109-112: the response of the busy path
BusyResponse(endpoint) ==
    SetMarker(SetStatus(IF backend # "FastAPI"
                        THEN JSONResponse("null")
                        ELSE make_response(""), 423),
              endpoint.type)

\* Mutant of handler_wrapper: the two type checks are missing, as in the
\* background wrapper.
handler_wrapper_unchecked(o) == o

\* Potassium.handler.wrapper: the user function's result, checked
handler_wrapper(o) ==
    IF o.t = "raise" THEN Raise
    ELSE IF o.t # "Response" THEN Raise
    ELSE IF o.json \notin Dicts THEN Raise
    ELSE o

\* Potassium.background.wrapper: the user function's result, unchecked
background_wrapper(o) == o

\* Mutant of BlockingResponse: line 121 (res.status_code = out.status) is
\* missing, so a success always goes out with the constructor's 200.
BlockingResponseNoStatus(endpoint, o) ==
    LET o2 == handler_wrapper(o) IN
    IF o2.t # "raise"
    THEN SetMarker(IF backend = "FastAPI"
                   THEN JSONResponse(o2.json)
                   ELSE make_response(o2.json),
                   endpoint.type)
    ELSE SetMarker(SetStatus(IF backend # "FastAPI"
                             THEN JSONResponse(Traceback)
                             ELSE make_response(Traceback), 500),
                   endpoint.type)

\* lines 118-130: the response of a blocking endpoint whose function gave o
BlockingResponse(endpoint, o) ==
    LET o2 == handler_wrapper(o) IN
    IF o2.t # "raise"
    THEN SetMarker(SetStatus(IF backend = "FastAPI"
                             THEN JSONResponse(o2.json)
                             ELSE make_response(o2.json), o2.status),
                   endpoint.type)
    ELSE SetMarker(SetStatus(IF backend # "FastAPI"
                             THEN JSONResponse(Traceback)
                             ELSE make_response(Traceback), 500),
                   endpoint.type)

\* lines 151-153: the acknowledgment of a background endpoint
AckResponse(endpoint) == SetMarker(make_response(Started), endpoint.type)

\* Mutant of write_event_chan: the queue's bound is ignored.
write_event_chan_unbounded(chan, item) == Append(chan, item)

\* _write_event_chan: put(item, block=False), Full swallowed
write_event_chan(chan, item) ==
    IF Len(chan) < QueueMaxSize THEN Append(chan, item) ELSE chan

\* _is_working
is_working == lock

\* the endpoint request r was routed to (handle: endpoint = self._endpoints[route])
endpoint_of(r) == endpoints[route[r]]

\* --------------------------------------------------------------- Init
\* The registry the decorators have built when serve() is called:
\*   @app.handler("/") on f, @app.background("/train") on g
Registry ==
    ("/" :> Endpoint("handler", "f")) @@ ("/train" :> Endpoint("background", "g"))

\* The state when serve() starts taking requests, with that registry.
Init ==
    /\ backend \in Backends
    /\ endpoints = Registry
    /\ serving = TRUE
    /\ lock = FALSE
    /\ event_chan = <<>>
    /\ pc = [r \in Requests |-> "idle"]
    /\ route = [r \in Requests |-> NoRoute]
    /\ gate = [r \in Requests |-> "-"]
    /\ saw = [r \in Requests |-> "-"]
    /\ calls = [r \in Requests |-> 0]
    /\ out = [r \in Requests |-> NoOut]
    /\ resp = [r \in Requests |-> NoResp]
    /\ task = [r \in Requests |-> "none"]
    /\ pubs = [r \in Requests |-> 0]
    /\ kept = 0
    /\ reader = "idle"
    /\ reads = 0
    /\ quiet = [r \in Requests |-> FALSE]
    /\ acked = [r \in Requests |-> FALSE]
    /\ parsed = [r \in Requests |-> FALSE]
    /\ fresh = FALSE

\* ------------------------------------------------------- registration
\* @app.handler(route): self._endpoints[route] = Endpoint("handler", wrapper)
RegisterHandler(rt, f) ==
    /\ ~serving
    /\ endpoints' = (rt :> Endpoint("handler", f)) @@ endpoints
    /\ UNCHANGED <<backend, serving, lock, event_chan, reqVars, task, pubs, kept, reader, reads, fresh>>

\* @app.background(route): self._endpoints[route] = Endpoint("background", wrapper)
RegisterBackground(rt, f) ==
    /\ ~serving
    /\ endpoints' = (rt :> Endpoint("background", f)) @@ endpoints
    /\ UNCHANGED <<backend, serving, lock, event_chan, reqVars, task, pubs, kept, reader, reads, fresh>>

\* serve(): the server starts taking requests
Serve ==
    /\ ~serving
    /\ serving' = TRUE
    /\ UNCHANGED <<backend, endpoints, lock, event_chan, reqVars, task, pubs, kept, reader, reads, fresh>>

\* ------------------------------------------------------- a request
\* The requests that are over (response sent, background thread ended).
Over(q) == pc[q] = "done" /\ task[q] \in {"none", "end", "dead"}

\* Mutant of Handle: the busy probe runs before the route lookup, so an
\* unknown route is answered 423 while the lock is held.
HandleProbeFirst(r, path) ==
    /\ serving
    /\ pc[r] = "idle"
    /\ r > 1 => pc[r - 1] # "idle"
    /\ LET rt == "/" \o path IN
       /\ route' = [route EXCEPT ![r] = rt]
       /\ IF is_working
          THEN /\ saw' = [saw EXCEPT ![r] = "held"]
               /\ resp' = [resp EXCEPT ![r] =
                             [status |-> 423, marker |-> NoMarker, body |-> ""]]
               /\ pc' = [pc EXCEPT ![r] = "done"]
          ELSE IF rt \notin DOMAIN endpoints
          THEN /\ pc' = [pc EXCEPT ![r] = "done"]
               /\ resp' = [resp EXCEPT ![r] = NotFound]
               /\ saw' = [saw EXCEPT ![r] = "free"]
          ELSE /\ saw' = [saw EXCEPT ![r] = "free"]
               /\ pc' = [pc EXCEPT ![r] =
                           IF endpoints[rt].type = "handler" THEN "acquire" ELSE "start"]
               /\ UNCHANGED resp
    /\ parsed' = [parsed EXCEPT ![r] = ~is_working /\ ("/" \o path) \in DOMAIN endpoints]
    /\ gate' = [gate EXCEPT ![r] = IF lock THEN "held" ELSE "free"]
    /\ quiet' = [quiet EXCEPT ![r] = \A q \in 1..(r - 1) : Over(q)]
    /\ acked' = [acked EXCEPT ![r] = \A q \in 1..(r - 1) : pc[q] = "done"]
    /\ UNCHANGED <<backend, endpoints, serving, lock, event_chan, calls, out,
                   task, pubs, kept, reader, reads, fresh>>

\* Mutant of Handle: the lookup is self._endpoints.setdefault(route, ...), so
\* a request for an unknown route leaves an endpoint behind.
HandleSetDefault(r, path) ==
    /\ serving
    /\ pc[r] = "idle"
    /\ r > 1 => pc[r - 1] # "idle"
    /\ LET rt == "/" \o path IN
       /\ route' = [route EXCEPT ![r] = rt]
       /\ IF rt \notin DOMAIN endpoints
          THEN /\ pc' = [pc EXCEPT ![r] = "done"]
               /\ resp' = [resp EXCEPT ![r] = NotFound]
               /\ endpoints' = (rt :> Endpoint("handler", "f")) @@ endpoints
               /\ UNCHANGED <<saw, parsed>>
          ELSE IF is_working
          THEN /\ saw' = [saw EXCEPT ![r] = "held"]
               /\ resp' = [resp EXCEPT ![r] = Wire(BusyResponse(endpoints[rt]))]
               /\ pc' = [pc EXCEPT ![r] = "done"]
               /\ UNCHANGED <<endpoints, parsed>>
          ELSE /\ saw' = [saw EXCEPT ![r] = "free"]
               /\ parsed' = [parsed EXCEPT ![r] = TRUE]
               /\ pc' = [pc EXCEPT ![r] =
                           IF endpoints[rt].type = "handler" THEN "acquire" ELSE "start"]
               /\ UNCHANGED <<endpoints, resp>>
    /\ gate' = [gate EXCEPT ![r] = IF lock THEN "held" ELSE "free"]
    /\ quiet' = [quiet EXCEPT ![r] = \A q \in 1..(r - 1) : Over(q)]
    /\ acked' = [acked EXCEPT ![r] = \A q \in 1..(r - 1) : pc[q] = "done"]
    /\ UNCHANGED <<backend, serving, lock, event_chan, calls, out,
                   task, pubs, kept, reader, reads, fresh>>

\* Mutant of Handle: req = Request(json=flask_request.get_json()) is built
\* before the busy probe, so the busy path reads the body too.
HandleParseFirst(r, path) ==
    /\ serving
    /\ pc[r] = "idle"
    /\ r > 1 => pc[r - 1] # "idle"
    /\ LET rt == "/" \o path IN
       /\ route' = [route EXCEPT ![r] = rt]
       /\ IF rt \notin DOMAIN endpoints
          THEN /\ pc' = [pc EXCEPT ![r] = "done"]
               /\ resp' = [resp EXCEPT ![r] = NotFound]
               /\ UNCHANGED <<saw, parsed>>
          ELSE IF is_working
          THEN /\ saw' = [saw EXCEPT ![r] = "held"]
               /\ parsed' = [parsed EXCEPT ![r] = TRUE]
               /\ resp' = [resp EXCEPT ![r] = Wire(BusyResponse(endpoints[rt]))]
               /\ pc' = [pc EXCEPT ![r] = "done"]
          ELSE /\ saw' = [saw EXCEPT ![r] = "free"]
               /\ parsed' = [parsed EXCEPT ![r] = TRUE]
               /\ pc' = [pc EXCEPT ![r] =
                           IF endpoints[rt].type = "handler" THEN "acquire" ELSE "start"]
               /\ UNCHANGED resp
    /\ gate' = [gate EXCEPT ![r] = IF lock THEN "held" ELSE "free"]
    /\ quiet' = [quiet EXCEPT ![r] = \A q \in 1..(r - 1) : Over(q)]
    /\ acked' = [acked EXCEPT ![r] = \A q \in 1..(r - 1) : pc[q] = "done"]
    /\ UNCHANGED <<backend, endpoints, serving, lock, event_chan, calls, out,
                   task, pubs, kept, reader, reads, fresh>>

\* handle(path) and lines 108-116 / 132-134 of _handle_generic: the route
\* lookup (404 when absent), the busy probe (423 path when the lock is held),
\* the branch on the endpoint type and req = Request(json=...)
Handle(r, path) ==
    /\ serving
    /\ pc[r] = "idle"
    /\ r > 1 => pc[r - 1] # "idle"
    /\ LET rt == "/" \o path IN
       /\ route' = [route EXCEPT ![r] = rt]
       /\ IF rt \notin DOMAIN endpoints
          THEN /\ pc' = [pc EXCEPT ![r] = "done"]
               /\ resp' = [resp EXCEPT ![r] = NotFound]
               /\ UNCHANGED <<saw, parsed>>
          ELSE IF is_working
          THEN /\ saw' = [saw EXCEPT ![r] = "held"]
               /\ resp' = [resp EXCEPT ![r] = Wire(BusyResponse(endpoints[rt]))]
               /\ pc' = [pc EXCEPT ![r] = "done"]
               /\ UNCHANGED parsed
          ELSE /\ saw' = [saw EXCEPT ![r] = "free"]
               /\ parsed' = [parsed EXCEPT ![r] = TRUE]
               /\ pc' = [pc EXCEPT ![r] =
                           IF endpoints[rt].type = "handler" THEN "acquire" ELSE "start"]
               /\ UNCHANGED resp
    /\ gate' = [gate EXCEPT ![r] = IF lock THEN "held" ELSE "free"]
    /\ quiet' = [quiet EXCEPT ![r] = \A q \in 1..(r - 1) : Over(q)]
    /\ acked' = [acked EXCEPT ![r] = \A q \in 1..(r - 1) : pc[q] = "done"]
    /\ UNCHANGED <<backend, endpoints, serving, lock, event_chan, calls, out,
                   task, pubs, kept, reader, reads, fresh>>

\* Mutant of AcquireLock: the handler is entered without waiting for the lock.
AcquireLockNoWait(r) ==
    /\ pc[r] = "acquire"
    /\ lock' = TRUE
    /\ pc' = [pc EXCEPT ![r] = "body"]
    /\ calls' = [calls EXCEPT ![r] = @ + 1]
    /\ UNCHANGED <<backend, endpoints, serving, event_chan, route, gate, saw, out, resp,
                   task, pubs, kept, reader, reads, quiet, acked, parsed, fresh>>

\* Mutant of AcquireLock: acquire(blocking=False), and a request that finds
\* the lock taken after its probe is turned away without running its function.
AcquireLockOrReject(r) ==
    /\ pc[r] = "acquire"
    /\ IF lock
       THEN /\ pc' = [pc EXCEPT ![r] = "done"]
            /\ resp' = [resp EXCEPT ![r] = Wire(BusyResponse(endpoint_of(r)))]
            /\ UNCHANGED <<lock, calls>>
       ELSE /\ lock' = TRUE
            /\ pc' = [pc EXCEPT ![r] = "body"]
            /\ calls' = [calls EXCEPT ![r] = @ + 1]
            /\ UNCHANGED resp
    /\ UNCHANGED <<backend, endpoints, serving, event_chan, route, gate, saw, out,
                   task, pubs, kept, reader, reads, quiet, acked, parsed, fresh>>

\* line 117: with self._lock (blocks while the lock is held), then line 119
\* calls endpoint.func
AcquireLock(r) ==
    /\ pc[r] = "acquire"
    /\ ~lock
    /\ lock' = TRUE
    /\ pc' = [pc EXCEPT ![r] = "body"]
    /\ calls' = [calls EXCEPT ![r] = @ + 1]
    /\ UNCHANGED <<backend, endpoints, serving, event_chan, route, gate, saw, out, resp,
                   task, pubs, kept, reader, reads, quiet, acked, parsed, fresh>>

\* Mutant of BlockingBody: the blocking path writes the completion signal too.
BlockingBodyPublishes(r, o) ==
    /\ pc[r] = "body"
    /\ out' = [out EXCEPT ![r] = o]
    /\ resp' = [resp EXCEPT ![r] = Wire(BlockingResponse(endpoint_of(r), o))]
    /\ lock' = FALSE
    /\ event_chan' = write_event_chan(event_chan, TRUE)
    /\ kept' = kept + (Len(event_chan') - Len(event_chan))
    /\ pc' = [pc EXCEPT ![r] = "done"]
    /\ UNCHANGED <<backend, endpoints, serving, route, gate, saw, calls,
                   task, pubs, reader, reads, quiet, acked, parsed, fresh>>

\* lines 119-130: the function ends with outcome o, the response is built, the
\* `with` block is left and the response goes to the caller
BlockingBody(r, o) ==
    /\ pc[r] = "body"
    /\ out' = [out EXCEPT ![r] = o]
    /\ resp' = [resp EXCEPT ![r] = Wire(BlockingResponse(endpoint_of(r), o))]
    /\ lock' = FALSE
    /\ pc' = [pc EXCEPT ![r] = "done"]
    /\ UNCHANGED <<backend, endpoints, serving, event_chan, route, gate, saw, calls,
                   task, pubs, kept, reader, reads, quiet, acked, parsed, fresh>>

\* lines 147-148: thread.start()
StartThread(r) ==
    /\ pc[r] = "start"
    /\ task' = [task EXCEPT ![r] = "acquire"]
    /\ pc' = [pc EXCEPT ![r] = "ack"]
    /\ UNCHANGED <<backend, endpoints, serving, lock, event_chan, route, gate, saw, calls,
                   out, resp, pubs, kept, reader, reads, quiet, acked, parsed, fresh>>

\* lines 151-153: the acknowledgment
Ack(r) ==
    /\ pc[r] = "ack"
    /\ resp' = [resp EXCEPT ![r] = Wire(AckResponse(endpoint_of(r)))]
    /\ pc' = [pc EXCEPT ![r] = "done"]
    /\ UNCHANGED <<backend, endpoints, serving, lock, event_chan, route, gate, saw, calls,
                   out, task, pubs, kept, reader, reads, quiet, acked, parsed, fresh>>

\* ------------------------------------------------- the background thread
\* Mutant of TaskAcquire: the thread calls the function without `with lock`.
TaskAcquireNoLock(r) ==
    /\ task[r] = "acquire"
    /\ lock' = TRUE
    /\ task' = [task EXCEPT ![r] = "body"]
    /\ calls' = [calls EXCEPT ![r] = @ + 1]
    /\ UNCHANGED <<backend, endpoints, serving, event_chan, pc, route, gate, saw, out, resp,
                   pubs, kept, reader, reads, quiet, acked, parsed, fresh>>

\* line 138: with lock, then line 140 calls endpoint.func
TaskAcquire(r) ==
    /\ task[r] = "acquire"
    /\ ~lock
    /\ lock' = TRUE
    /\ task' = [task EXCEPT ![r] = "body"]
    /\ calls' = [calls EXCEPT ![r] = @ + 1]
    /\ UNCHANGED <<backend, endpoints, serving, event_chan, pc, route, gate, saw, out, resp,
                   pubs, kept, reader, reads, quiet, acked, parsed, fresh>>

\* Mutant of TaskBody: the try statement encloses the `with` block, so an
\* exception leaves the `with` block first and the signal is written after it.
TaskBodyTryOutside(r, o) ==
    /\ task[r] = "body"
    /\ out' = [out EXCEPT ![r] = o]
    /\ fresh' = TRUE
    /\ task' = [task EXCEPT ![r] = "publish"]
    /\ lock' = FALSE
    /\ UNCHANGED <<backend, endpoints, serving, event_chan, pc, route, gate, saw, calls, resp,
                   pubs, kept, reader, reads, quiet, acked, parsed>>

\* lines 139-141: the function ends with outcome o: on a return the `with`
\* block is left (line 145 is next), on an exception line 143 is next
TaskBody(r, o) ==
    /\ task[r] = "body"
    /\ out' = [out EXCEPT ![r] = o]
    /\ fresh' = TRUE
    /\ IF background_wrapper(o).t = "raise"
       THEN /\ task' = [task EXCEPT ![r] = "except"]
            /\ UNCHANGED lock
       ELSE /\ task' = [task EXCEPT ![r] = "publish"]
            /\ lock' = FALSE
    /\ UNCHANGED <<backend, endpoints, serving, event_chan, pc, route, gate, saw, calls, resp,
                   pubs, kept, reader, reads, quiet, acked, parsed>>

\* line 143: self._write_event_chan(True) in the except clause, lock held
TaskExceptPublish(r) ==
    /\ task[r] = "except"
    /\ event_chan' = write_event_chan(event_chan, TRUE)
    /\ kept' = kept + (Len(event_chan') - Len(event_chan))
    /\ pubs' = [pubs EXCEPT ![r] = @ + 1]
    /\ task' = [task EXCEPT ![r] = "reraise"]
    /\ UNCHANGED <<backend, endpoints, serving, lock, reqVars, reader, reads, fresh>>

\* Mutant of TaskReraise: `raise e` is missing, so the thread leaves the
\* `with` block and goes on to line 145.
TaskReraiseFallsThrough(r) ==
    /\ task[r] = "reraise"
    /\ lock' = FALSE
    /\ task' = [task EXCEPT ![r] = "publish"]
    /\ UNCHANGED <<backend, endpoints, serving, event_chan, reqVars, pubs, kept,
                   reader, reads, fresh>>

\* Mutant of TaskReraise: the lock is taken with acquire() and released only
\* after a normal return, so an exception ends the thread with the lock held.
TaskReraiseKeepsLock(r) ==
    /\ task[r] = "reraise"
    /\ task' = [task EXCEPT ![r] = "dead"]
    /\ UNCHANGED <<backend, endpoints, serving, lock, event_chan, reqVars, pubs, kept,
                   reader, reads, fresh>>

\* line 144: raise e leaves the `with` block and ends the thread
TaskReraise(r) ==
    /\ task[r] = "reraise"
    /\ lock' = FALSE
    /\ task' = [task EXCEPT ![r] = "dead"]
    /\ UNCHANGED <<backend, endpoints, serving, event_chan, reqVars, pubs, kept,
                   reader, reads, fresh>>

\* line 145: self._write_event_chan(True) after the `with` block
TaskPublish(r) ==
    /\ task[r] = "publish"
    /\ event_chan' = write_event_chan(event_chan, TRUE)
    /\ kept' = kept + (Len(event_chan') - Len(event_chan))
    /\ pubs' = [pubs EXCEPT ![r] = @ + 1]
    /\ task' = [task EXCEPT ![r] = "end"]
    /\ UNCHANGED <<backend, endpoints, serving, lock, reqVars, reader, reads, fresh>>

\* ------------------------------------------------- the event channel's reader
\* a call of _read_event_chan()
ReadCall ==
    /\ serving
    /\ reader = "idle"
    /\ reads < MaxReads
    /\ reader' = "get"
    /\ UNCHANGED <<backend, endpoints, serving, lock, event_chan, reqVars, task, pubs,
                   kept, reads, fresh>>

\* Mutant of ReadReturn: get(block=False) with Empty swallowed.
ReadReturnNoWait ==
    /\ reader = "get"
    /\ event_chan' = IF Len(event_chan) > 0 THEN Tail(event_chan) ELSE event_chan
    /\ reads' = reads + 1
    /\ fresh' = FALSE
    /\ reader' = "idle"
    /\ UNCHANGED <<backend, endpoints, serving, lock, reqVars, task, pubs, kept>>

\* Queue.get(): returns once the queue holds an item, and takes it
ReadReturn ==
    /\ reader = "get"
    /\ Len(event_chan) > 0
    /\ event_chan' = Tail(event_chan)
    /\ reads' = reads + 1
    /\ fresh' = FALSE
    /\ reader' = "idle"
    /\ UNCHANGED <<backend, endpoints, serving, lock, reqVars, task, pubs, kept>>

\* --------------------------------------------------------------- Next
Next ==
    \/ \E r \in Requests, p \in Paths : Handle(r, p)
    \/ \E r \in Requests : AcquireLock(r)
    \/ \E r \in Requests, o \in Outcomes : BlockingBody(r, o)
    \/ \E r \in Requests : StartThread(r)
    \/ \E r \in Requests : Ack(r)
    \/ \E r \in Requests : TaskAcquire(r)
    \/ \E r \in Requests, o \in BgOutcomes : TaskBody(r, o)
    \/ \E r \in Requests : TaskExceptPublish(r)
    \/ \E r \in Requests : TaskReraise(r)
    \/ \E r \in Requests : TaskPublish(r)

\* Requests and background threads, from the start of serving.  Nothing a
\* request or a thread does depends on what the queue holds, so its reader is
\* left to SpecChan.
Spec == Init /\ [][Next]_vars

\* Scheduling: a request thread or a background thread that can take a step
\* eventually takes one, and a function that was called eventually returns or
\* raises.  Requests need not arrive.
Fairness ==
    \A r \in Requests :
        /\ WF_vars(AcquireLock(r))
        /\ WF_vars(\E o \in Outcomes : BlockingBody(r, o))
        /\ WF_vars(StartThread(r))
        /\ WF_vars(Ack(r))
        /\ WF_vars(TaskAcquire(r))
        /\ WF_vars(\E o \in BgOutcomes : TaskBody(r, o))
        /\ WF_vars(TaskExceptPublish(r))
        /\ WF_vars(TaskReraise(r))
        /\ WF_vars(TaskPublish(r))

SpecFair == Init /\ [][Next]_vars /\ Fairness

\* The event channel: requests for the background route, their threads, and a
\* reader calling _read_event_chan.
NextChan ==
    \/ \E r \in Requests : Handle(r, "train")
    \/ \E r \in Requests : StartThread(r)
    \/ \E r \in Requests : Ack(r)
    \/ \E r \in Requests : TaskAcquire(r)
    \/ \E r \in Requests, o \in BgOutcomes : TaskBody(r, o)
    \/ \E r \in Requests : TaskExceptPublish(r)
    \/ \E r \in Requests : TaskReraise(r)
    \/ \E r \in Requests : TaskPublish(r)
    \/ ReadCall
    \/ ReadReturn

SpecChan == Init /\ [][NextChan]_vars

\* (The first NReqAll) requests for every route, their threads, and the reader
\* of the event channel together.
NextAll ==
    \/ \E r \in 1..NReqAll, p \in Paths : Handle(r, p)
    \/ \E r \in Requests : AcquireLock(r)
    \/ \E r \in Requests, o \in Outcomes : BlockingBody(r, o)
    \/ \E r \in Requests : StartThread(r)
    \/ \E r \in Requests : Ack(r)
    \/ \E r \in Requests : TaskAcquire(r)
    \/ \E r \in Requests, o \in BgOutcomes : TaskBody(r, o)
    \/ \E r \in Requests : TaskExceptPublish(r)
    \/ \E r \in Requests : TaskReraise(r)
    \/ \E r \in Requests : TaskPublish(r)
    \/ ReadCall
    \/ ReadReturn

SpecAll == Init /\ [][NextAll]_vars

\* The program from construction on: any decorators run, in any order, then
\* serve() is called and (the first NReqReg) requests are served.
InitReg ==
    /\ backend \in Backends
    /\ endpoints = [x \in {} |-> x]
    /\ serving = FALSE
    /\ lock = FALSE
    /\ event_chan = <<>>
    /\ pc = [r \in Requests |-> "idle"]
    /\ route = [r \in Requests |-> NoRoute]
    /\ gate = [r \in Requests |-> "-"]
    /\ saw = [r \in Requests |-> "-"]
    /\ calls = [r \in Requests |-> 0]
    /\ out = [r \in Requests |-> NoOut]
    /\ resp = [r \in Requests |-> NoResp]
    /\ task = [r \in Requests |-> "none"]
    /\ pubs = [r \in Requests |-> 0]
    /\ kept = 0
    /\ reader = "idle"
    /\ reads = 0
    /\ quiet = [r \in Requests |-> FALSE]
    /\ acked = [r \in Requests |-> FALSE]
    /\ parsed = [r \in Requests |-> FALSE]
    /\ fresh = FALSE

NextReg ==
    \/ \E p \in Paths \ {"nope"}, f \in Funcs : RegisterHandler("/" \o p, f)
    \/ \E p \in Paths \ {"nope"}, f \in Funcs : RegisterBackground("/" \o p, f)
    \/ Serve
    \/ \E r \in 1..NReqReg, p \in Paths : Handle(r, p)
    \/ \E r \in Requests : AcquireLock(r)
    \/ \E r \in Requests, o \in Outcomes : BlockingBody(r, o)
    \/ \E r \in Requests : StartThread(r)
    \/ \E r \in Requests : Ack(r)
    \/ \E r \in Requests : TaskAcquire(r)
    \/ \E r \in Requests, o \in BgOutcomes : TaskBody(r, o)
    \/ \E r \in Requests : TaskExceptPublish(r)
    \/ \E r \in Requests : TaskReraise(r)
    \/ \E r \in Requests : TaskPublish(r)

SpecReg == InitReg /\ [][NextReg]_vars


\* ------------------------------------------------------------ the claims
\* The endpoint type request r was routed to ("-" when it was routed to none).
Kind(r) == IF route[r] \in DOMAIN endpoints THEN endpoints[route[r]].type ELSE "-"

\* The threads inside an endpoint function.
Executing == {r \in Requests : pc[r] = "body" \/ task[r] = "body"}

\* The threads inside a `with lock` block.
Holders == {r \in Requests : pc[r] = "body" \/ task[r] \in {"body", "except", "reraise"}}

RECURSIVE SumPubs(_)
SumPubs(S) == IF S = {} THEN 0 ELSE LET r == CHOOSE x \in S : TRUE IN pubs[r] + SumPubs(S \ {r})
TotalPubs == SumPubs(Requests)

\* A blocking request that passed the probe and has its response.
BlockingDone(r) == pc[r] = "done" /\ Kind(r) = "handler" /\ saw[r] = "free"

\* C1: at most one endpoint function is executing at any time, whatever the
\* mix of blocking requests and background threads.
C1_MutualExclusion == Cardinality(Executing) <= 1

\* C1 witness: a blocking handler is executing while two background threads
\* wait for the lock.
C1_Witness ==
    \E a, b, c \in Requests :
        b # c /\ pc[a] = "body" /\ task[b] = "acquire" /\ task[c] = "acquire"

\* C2: a request whose probe found the lock held is answered 423, with the
\* marker of the endpoint it was routed to.
C2_BusyRejection ==
    \A r \in Requests :
        saw[r] = "held" => resp[r].status = 423 /\ resp[r].marker = Kind(r)

\* C3: a request for a route that is not registered is answered 404 in one
\* step that leaves the lock, the queue, the threads and the call counts as
\* they were, whether the lock is held or not, and nothing more happens for it.
C3_NotFound ==
    /\ [](\A r \in Requests :
            (pc[r] # "idle" /\ route[r] \notin DOMAIN endpoints)
                => /\ pc[r] = "done" /\ resp[r].status = 404
                   /\ saw[r] = "-" /\ calls[r] = 0 /\ task[r] = "none")
    /\ [][\A r \in Requests :
            (pc[r] = "idle" /\ pc'[r] # "idle" /\ route'[r] \notin DOMAIN endpoints)
                => /\ lock' = lock /\ event_chan' = event_chan
                   /\ task' = task /\ calls' = calls /\ pubs' = pubs]_vars

\* C3 witness: one unknown route was requested while the lock was held and
\* another while it was free, and both got 404.
C3_Witness ==
    \E r, q \in Requests :
        /\ Kind(r) = "-" /\ Kind(q) = "-"
        /\ gate[r] = "held" /\ gate[q] = "free"
        /\ resp[r].status = 404 /\ resp[q].status = 404

\* C4: a blocking request that passed the probe and whose function returned a
\* Response with a dict gets exactly that status and that dict, marked
\* "handler"; its function was called once, under the lock, and the request
\* does not hold the lock once it is answered.
C4_BlockingResult ==
    \A r \in Requests :
        /\ pc[r] = "body" => lock /\ calls[r] = 1 /\ out[r] = NoOut
        /\ (BlockingDone(r) /\ out[r].t = "Response" /\ out[r].json \in Dicts)
              => /\ resp[r] = [status |-> out[r].status, marker |-> "handler",
                               body |-> out[r].json]
                 /\ calls[r] = 1
                 /\ lock => Holders # {}

\* C4 witness: a blocking request answered 418 with the empty dict, the lock free.
C4_Witness ==
    \E r \in Requests :
        /\ BlockingDone(r) /\ out[r] = Response(418, "{}")
        /\ resp[r].status = 418 /\ ~lock

\* C5: a background request that passed the probe is answered 200 with the
\* body {"started": true}.
C5_Ack ==
    \A r \in Requests :
        (pc[r] = "done" /\ Kind(r) = "background" /\ saw[r] = "free")
            => resp[r] = [status |-> 200, marker |-> "background", body |-> Started]

C7_SingleSlot ==
    /\ [](Len(event_chan) <= 1)
    /\ [][\A r \in Requests :
            pubs'[r] = pubs[r] + 1
                => /\ Len(event_chan') = 1
                   /\ Len(event_chan) = 1 => event_chan' = event_chan]_vars

\* C7 witness: three puts and one get; one put was dropped and one item is pending.
C7_Witness ==
    TotalPubs = 3 /\ kept = 2 /\ reads = 1 /\ Len(event_chan) = 1

\* C8: a get returns only by taking the item of a non-empty queue, which it
\* leaves empty; so the gets that returned never outnumber the puts that were
\* kept, and every kept item is either pending or went to exactly one get.
C8_ConsumeBlocks ==
    /\ [](reads <= kept /\ kept = reads + Len(event_chan))
    /\ [][reads' # reads
            => /\ reads' = reads + 1
               /\ event_chan = <<TRUE>> /\ event_chan' = <<>>]_vars

\* C8 witness: two puts were coalesced into one item, one get took it, and a
\* second get is waiting on the empty queue.
C8_Witness ==
    TotalPubs = 2 /\ kept = 1 /\ reads = 1 /\ reader = "get" /\ event_chan = <<>>

\* C9: a blocking request whose function raised is answered 500 with the
\* marker "handler", and does not hold the lock afterwards.
C9_BlockingFailure ==
    \A r \in Requests :
        (BlockingDone(r) /\ out[r] = Raise)
            => /\ resp[r].status = 500 /\ resp[r].marker = "handler"
               /\ lock => Holders # {}

Invalid(o) == o.t = "other" \/ (o.t = "Response" /\ o.json \notin Dicts)

\* C11 (as stated): on any registered endpoint, an admitted request whose
\* function returns an invalid value is answered 500 and leaves the lock free.
C11_InvalidReturn ==
    \A r \in Requests :
        (pc[r] = "done" /\ saw[r] = "free" /\ Kind(r) # "-" /\ Invalid(out[r]))
            => (resp[r].status = 500 /\ r \notin Holders)

\* C11 (amended): on a blocking endpoint, an admitted request whose function
\* returns an invalid value is answered exactly as one whose function raised,
\* with status 500, and no longer holds the lock; on a background endpoint the
\* return value is not checked and the thread ends as after a valid return.
C11_InvalidReturnBlocking ==
    /\ \A r \in Requests :
          (BlockingDone(r) /\ Invalid(out[r]))
              => /\ resp[r].status = 500
                 /\ resp[r] = Wire(BlockingResponse(endpoint_of(r), Raise))
                 /\ r \notin Holders
    /\ \A r \in Requests :
          (Kind(r) = "background" /\ Invalid(out[r]))
              => (task[r] \in {"publish", "end"} /\ r \notin Holders)

C11_Witness ==
    \E r, q \in Requests :
        /\ BlockingDone(r) /\ out[r] = NotAResponse /\ resp[r].status = 500
        /\ BlockingDone(q) /\ out[q] = Response(200, "[1, 2]") /\ resp[q].status = 500
        /\ ~lock

\* C12 (as stated): a registration never changes what an already registered
\* route maps to, so each route keeps the kind and the function of its first
\* registration.
C12_FirstRegistrationWins ==
    [][\A rt \in DOMAIN endpoints :
          rt \in DOMAIN endpoints' /\ endpoints'[rt] = endpoints[rt]]_vars

\* C13 (as stated): on every exit path of the function the signal is published
\* while the thread still holds the lock: a thread that has taken the lock and
\* has not published yet still holds it.
C13_PublishBeforeRelease ==
    \A r \in Requests :
        (task[r] \notin {"none", "acquire"} /\ pubs[r] = 0) => (lock /\ r \in Holders)

\* C13 (amended): when the function raised, the thread publishes while it
\* holds the lock and releases the lock afterwards; when the function
\* returned, the thread has released the lock before it publishes.
C13_PublishOrder ==
    [][\A r \in Requests :
          /\ pubs'[r] # pubs[r]
                => IF out[r].t = "raise"
                   THEN lock /\ lock' /\ r \in Holders /\ task'[r] = "reraise"
                   ELSE r \notin Holders /\ task'[r] = "end"
          /\ (task[r] \in {"body", "except", "reraise"} /\ lock /\ ~lock')
                => IF out'[r].t = "raise" THEN pubs[r] = 1 ELSE pubs[r] = 0]_vars

C13_Witness ==
    \E r, q \in Requests :
        /\ task[r] = "reraise" /\ pubs[r] = 1 /\ lock /\ Holders = {r}
        /\ task[q] = "publish" /\ pubs[q] = 0 /\ out[q] = NotAResponse

\* C14: the probe and the acquisition are separate steps.  Requests that both
\* found the lock free are both serviced: neither is turned away, one waits
\* on the lock with no response yet, their functions never run at the same
\* time, and each blocking one has run its function once when it returns.
C14_ProbeRace ==
    \A r, q \in Requests :
        (r # q /\ saw[r] = "free" /\ saw[q] = "free")
            => /\ ~({r, q} \subseteq Executing)
               /\ resp[r].status # 423
               /\ pc[r] = "acquire" => (resp[r] = NoResp /\ calls[r] = 0)
               /\ BlockingDone(r) => (calls[r] = 1 /\ out[r] # NoOut)

\* Request 2 found the lock free although request 1, a blocking one, was not
\* over: request 1 had passed its probe and not yet taken the lock.  Both
\* have run their functions and returned.
C14_Witness ==
    /\ BlockingDone(1) /\ BlockingDone(2)
    /\ ~quiet[2]
    /\ calls[1] = 1 /\ calls[2] = 1
    /\ ~lock

\* C15 (as stated, its first sentence): a request for a registered route that
\* has returned was either rejected with 423 and never ran its function, or
\* was admitted and runs its function exactly once.
C15_TwoOutcomes ==
    \A r \in Requests :
        (pc[r] = "done" /\ Kind(r) # "-")
            => \/ saw[r] = "held" /\ resp[r].status = 423 /\ calls[r] = 0
               \/ /\ saw[r] = "free" /\ resp[r].status # 423 /\ calls[r] <= 1
                  /\ (Kind(r) = "handler" \/ Over(r)) => calls[r] = 1

\* C15, its second sentence: under Fairness every admitted request runs its
\* function, every blocking request returns, and a held lock becomes free.
C15_Progress ==
    /\ \A r \in Requests : (saw[r] = "free") ~> (calls[r] = 1)
    /\ \A r \in Requests : (saw[r] = "free" /\ Kind(r) = "handler") ~> (pc[r] = "done")
    /\ lock ~> ~lock

\* C16: the busy path touches nothing shared.  The step in which a request
\* finds the lock held leaves the lock, the event channel, the threads, the
\* call counts and the registry as they were and ends the request; such a
\* request has read no body, called no function, started no thread and
\* published nothing.
C16_BusyPathFrame ==
    /\ [][\A r \in Requests :
             (saw'[r] = "held" /\ saw[r] # "held")
                 => /\ lock' = lock /\ lock
                    /\ event_chan' = event_chan /\ kept' = kept /\ pubs' = pubs
                    /\ task' = task /\ calls' = calls /\ out' = out
                    /\ parsed' = parsed
                    /\ endpoints' = endpoints
                    /\ pc'[r] = "done"]_vars
    /\ [](\A r \in Requests :
             saw[r] = "held"
                 => /\ ~parsed[r] /\ calls[r] = 0 /\ out[r] = NoOut
                    /\ task[r] = "none" /\ pubs[r] = 0
                    /\ pc[r] = "done")

C16_Witness ==
    \E r, q \in Requests :
        /\ saw[r] = "held" /\ Kind(r) = "background" /\ pc[r] = "done"
        /\ q \in Holders /\ lock /\ saw[q] = "free"

\* C17: serving never changes the registry.  No step of a request or of a
\* background thread changes the registry, whatever the request's outcome,
\* and from the start of serving on the registry stays as it is, so a route
\* always resolves to the same endpoint.
C17_ServingKeepsRegistry ==
    /\ [][(pc' # pc \/ task' # task) => endpoints' = endpoints]_vars
    /\ [][serving => endpoints' = endpoints]_vars

C17_Witness ==
    \E r, q \in Requests :
        /\ serving
        /\ DOMAIN endpoints = {"/", "/train"}
        /\ pc[r] = "done" /\ resp[r].status = 200 /\ Kind(r) = "handler"
        /\ pc[q] = "done" /\ saw[q] = "held"

\* C18 (as stated): a completion signal is never in the event channel, or
\* already consumed, while the thread that published it still holds the lock.
\* Stated for the first signal: once the only signal published so far has been
\* put into the channel, its publisher no longer holds the lock.
C18_SignalAfterRelease ==
    \A r \in Requests :
        (pubs[r] = 1 /\ TotalPubs = 1 /\ kept = 1) => (r \notin Holders)

\* The background requests whose function has returned or raised.
Finished == {r \in Requests : Kind(r) = "background" /\ out[r] # NoOut}

\* C19 (as stated, its first clause): the event channel holds a signal only
\* if a background function has ended since the last consume.
C19_SignalSinceLastConsume == Len(event_chan) > 0 => fresh

\* C19 (amended): no spurious completion signal.  The signals consumed and
\* the one in the channel never outnumber the background functions that have
\* finished, so the channel holds a signal only when a finished function is
\* not yet accounted for by a consume (it may have finished before the last
\* consume); only a background thread whose function has finished publishes,
\* and the channel gains a signal only in such a step.
C19_NoSpuriousSignal ==
    /\ [](/\ kept = reads + Len(event_chan)
          /\ kept <= TotalPubs
          /\ TotalPubs <= Cardinality(Finished)
          /\ \A r \in Requests : r \notin Finished => pubs[r] = 0)
    /\ [][/\ \A r \in Requests :
                pubs'[r] # pubs[r] => (r \in Finished /\ saw[r] = "free" /\ task[r] # "none")
          /\ Len(event_chan') > Len(event_chan)
                => \E r \in Finished : pubs'[r] = pubs[r] + 1]_vars

C19_Witness ==
    \E r, q \in Requests :
        /\ r \in Finished /\ task[r] \in {"end", "dead"} /\ pubs[r] = 1
        /\ reads = 1 /\ event_chan = <<>>
        /\ BlockingDone(q) /\ pubs[q] = 0

\* Request q is an admitted background request that had been acknowledged, as
\* had every other earlier request, when the later request r was issued, and
\* r was admitted too.
AckedBefore(q, r) ==
    /\ q < r /\ acked[r]
    /\ Kind(q) = "background" /\ saw[q] = "free"
    /\ saw[r] = "free"

\* C20 (as stated): functions start in admission order.  If q was
\* acknowledged before r was issued and r's function has started, then q's
\* function has started.
C20_AdmissionOrder ==
    \A q, r \in Requests :
        (AckedBefore(q, r) /\ calls[r] >= 1) => calls[q] >= 1

\* C20 (amended): if q was acknowledged before r was issued, the two
\* functions never run at the same time; q's has started before r's when q's
\* thread had ended by the time r was issued, and when r's starts first q's
\* thread is waiting for the lock.
C20_EitherOrder ==
    \A q, r \in Requests :
        AckedBefore(q, r)
            => /\ ~({q, r} \subseteq Executing)
               /\ quiet[r] => (calls[q] = 1 /\ task[q] \in {"end", "dead"})
               /\ (calls[r] >= 1 /\ calls[q] = 0) => (~quiet[r] /\ task[q] = "acquire")

\* The second request's function runs while the acknowledged first request's
\* thread still waits for the lock.
C20_Witness ==
    \E q, r \in Requests :
        /\ AckedBefore(q, r)
        /\ r \in Executing
        /\ calls[q] = 0 /\ task[q] = "acquire" /\ pc[q] = "done"

====
